---------------------------- MODULE Spec2Model ----------------------------
(***************************************************************************)
(* State-machine model of the parallel task orchestrator                   *)
(* (src/parallel-orchestrator): the in-memory ThreadingBackend with its    *)
(* worker pickup loop, and the orchestrator-side protocol of the durable   *)
(* backends (SlurmBackend, AWSBatchBackend) with their RetryManager.       *)
(*                                                                         *)
(* Task ids are the integers 1..num_tasks, in the insertion order of       *)
(* plan["tasks"]; the id 0 stands for an id that names no task.            *)
(***************************************************************************)
EXTENDS Integers, Sequences, FiniteSets, Bags, TLC

(***************************************************************************)
(* Bounds of the model.                                                    *)
(***************************************************************************)
MaxTasks == 2
MaxM == 2
MaxRetries == 2
MaxPolls == 2
MaxProcs == 2
MaxCalls == 2
MaxPriority == 2
MaxAssigned == 3
MaxPool == 3

VARIABLES
    \* ---- the plan and the configuration (read-only after Init) ----
    num_tasks,           \* len(self.tasks)
    dependencies,        \* plan["dependencies"]: task id -> set of task ids
    max_executors,       \* config.max_executors (M)
    use_real_executors,  \* config.use_real_executors
    priority,            \* task["priority"] of every task (1 is the highest)
    exit_status,         \* exit status of the process, NotExited while it runs
    \* ---- ThreadingBackend ----
    completed_tasks,     \* self.completed_tasks
    in_progress_tasks,   \* self.in_progress_tasks
    results,             \* self.results (a list of result dicts)
    task_lock,           \* the worker that holds self.task_lock, NoTask if free
    executor_threads,    \* number of threads started by wait_for_completion
    wpc,                 \* position of each executor thread in _executor_worker
    task_to_execute,     \* the local task_to_execute of each executor thread
    main_pc,             \* position of the orchestrator's main thread
    summary,             \* the summary built by aggregate_results
    \* ---- RetryManager (slurm_backend.py, and its copy in aws_batch_backend.py) ----
    max_retries,         \* RetryManager.max_retries
    exponential_backoff, \* RetryManager.exponential_backoff
    retry_counts,        \* RetryManager.retry_counts
    slept,               \* per task, the delay of the last time.sleep(delay) of a retry
    \* ---- SlurmBackend (the orchestrator process) ----
    spc,                 \* position of the orchestrator in the durable backend
    tasks_state,         \* content of .slurm_state/tasks.json
    job_ids,             \* self.job_ids, a dict kept in insertion order
    jobs_file,           \* the "jobs" entry of .slurm_state/jobs.json
    submitted,           \* _submit_all_jobs: the local set submitted
    pending,             \* _submit_all_jobs: the local list pending
    ready,               \* _submit_all_jobs: the rest of the local list ready
    elapsed,             \* _monitor_jobs: the local elapsed
    poll_idx,            \* _check_completed_jobs: index into list(job_ids.items())
    monitor_round,       \* 1: _monitor_jobs of wait_for_completion, 2: of _handle_failed_jobs
    failed_tasks,        \* _handle_failed_jobs: the local list failed_tasks
    retry_idx,           \* _handle_failed_jobs: index of the loop over failed_tasks
    \* ---- AWSBatchBackend (the orchestrator process); the locals of its
    \* ---- methods of the same names are the ones listed for SlurmBackend
    bpc,                 \* position of the orchestrator in the AWS Batch backend
    task_status,         \* self.task_status
    job_mapping,         \* self.job_mapping, a dict kept in insertion order
    state_file,          \* content of state/tasks.json on S3 (NoObject: none) 
    retried,             \* _handle_failed_jobs: the local retried
    task_results,        \* self.task_results
    \* ---- the processes that update tasks.json through _update_task_status ----
    fpc,                 \* position of each process in _update_task_status
    fdoc,                \* per process, the local tasks_state it read and changed
    upd,                 \* per process, the (task_id, status) of its call
    calls,               \* per process, the number of calls it has finished
    lock_sh,             \* the processes holding flock LOCK_SH on tasks.json
    lock_ex,             \* the process holding flock LOCK_EX on tasks.json (0: none)
    file_bytes,          \* how much of the document tasks_state is on the disk
    \* ---- the cluster: the external scheduler, the workers, the shared files ----
    ext_jobs,            \* the scheduler's job table; a job id is an index into it
    result_files,        \* per task, the status in results/<id>.json ("none": no file)
    body_fails,          \* per task, how many leading attempts of the worker body fail
    \* ---- DockerBackend; its self.task_status and self.task_results are the
    \* ---- variables of those names listed for AWSBatchBackend
    dkpc,                \* position of the orchestrator in the Docker backend
    executor_tasks,      \* self.executor_tasks: executor id -> list of tasks
    containers           \* per executor, the state of its container

planvars == <<num_tasks, dependencies, max_executors, use_real_executors,
              priority>>
tvars == <<completed_tasks, in_progress_tasks, results, executor_threads,
           wpc, task_to_execute, main_pc, summary,
          task_lock>>
retryvars == <<max_retries, exponential_backoff, retry_counts, slept>>
svars == <<spc, tasks_state, job_ids, jobs_file, submitted, pending, ready,
           elapsed, poll_idx, monitor_round, failed_tasks, retry_idx>>
slurmvars == <<spc, tasks_state, job_ids, jobs_file, poll_idx>>
bvars == <<bpc, task_status, job_mapping, state_file, retried, task_results>>
envvars == <<ext_jobs, result_files, body_fails>>
filevars == <<fpc, fdoc, upd, calls, lock_sh, lock_ex, file_bytes>>
dvars == <<retryvars, svars, bvars, envvars, filevars>>
dockvars == <<dkpc, executor_tasks, containers>>
vars == <<planvars, exit_status, dockvars, tvars, dvars>>

Max2(a, b) == IF a >= b THEN a ELSE b

Tasks == 1..num_tasks
Workers == 1..Max2(MaxM, MaxTasks)
NoTask == 0
NotExited == 0 - 1

\* task["priority"] is only written to the log by execute_task; outside the
\* runs that look at the claim order every task carries the same priority
SamePriority == [t \in 1..num_tasks |-> 1]
Procs == 1..MaxProcs

(***************************************************************************)
(* Plans.  The planner is an oracle: the orchestrator hands whatever       *)
(* dependency map it returns to the backend (orchestrator.py, run: no      *)
(* validation between create_plan and execute_parallel), so the plans      *)
(* include a cyclic one and one that names an unknown id.                  *)
(***************************************************************************)
PlanIndependent(n) == [t \in 1..n |-> {}]
PlanChain(n) == [t \in 1..n |-> IF t = 1 THEN {} ELSE {t - 1}]
PlanFanOut(n) == [t \in 1..n |-> IF t = 1 THEN {} ELSE {1}]
PlanFanIn(n) == [t \in 1..n |-> IF t = n THEN 1..(n - 1) ELSE {}]
PlanReverse(n) == [t \in 1..n |-> IF t = n THEN {} ELSE {t + 1}]
PlanCycle(n) == [t \in 1..n |-> IF t = 1 THEN {n} ELSE {t - 1}]
PlanUnknown(n) == [t \in 1..n |-> IF t = n THEN {NoTask} ELSE {}]

Plans(n) ==
    {PlanIndependent(n), PlanChain(n), PlanFanOut(n), PlanFanIn(n),
     PlanReverse(n), PlanCycle(n), PlanUnknown(n)}

\* the transitive closure of the dependency relation reaches t from t
RECURSIVE Reach(_, _, _)
Reach(deps, S, k) ==
    IF k = 0 THEN S
    ELSE Reach(deps, S \cup UNION {deps[u] : u \in S \cap DOMAIN deps}, k - 1)

Acyclic(deps) ==
    \A t \in DOMAIN deps : t \notin Reach(deps, deps[t], Cardinality(DOMAIN deps))

KnownDeps(deps) == \A t \in DOMAIN deps : deps[t] \subseteq DOMAIN deps

ValidPlan == Acyclic(dependencies) /\ KnownDeps(dependencies)


(***************************************************************************)
(* State files of the Slurm backend                                        *)
(***************************************************************************)
\* initialize: the first content of tasks.json
EmptyTasksState ==
    [tasks |-> <<>>, completed |-> <<>>, in_progress |-> <<>>,
     failed |-> <<>>, pending |-> <<>>]

(***************************************************************************)
(* ThreadingBackend: helpers                                               *)
(***************************************************************************)
Min(a, b) == IF a <= b THEN a ELSE b

\* (mutant) one thread per task, the executor budget ignored
num_executors_unbounded == num_tasks

\* wait_for_completion: num_executors_needed = min(num_tasks, max_executors)
num_executors_needed == Min(num_tasks, max_executors)

\* (mutant) a dependency that has been claimed counts as satisfied
can_execute_task_started(t) ==
    \A d \in dependencies[t] : d \in completed_tasks \cup in_progress_tasks

\* (mutant) the dependency test left out of the scan
can_execute_task_nodeps(t) == TRUE

\* can_execute_task: every dep_id listed for the task is in completed_tasks
can_execute_task(t) ==
    \A dep_id \in dependencies[t] : dep_id \in completed_tasks

\* (mutant) the scan does not look at in_progress_tasks
PickableIgnoringInProgress(t) ==
    /\ t \notin completed_tasks
    /\ \A dep_id \in dependencies[t] : dep_id \in completed_tasks

\* the condition of the claim scan in _executor_worker
Pickable(t) ==
    /\ t \notin completed_tasks
    /\ t \notin in_progress_tasks
    /\ can_execute_task(t)

\* the scan visits self.tasks in insertion order and breaks at the first hit
FirstPickable ==
    IF \E t \in Tasks : Pickable(t)
    THEN CHOOSE t \in Tasks :
             Pickable(t) /\ \A u \in Tasks : Pickable(u) => t <= u
    ELSE NoTask

Result(t, st) == [task_id |-> t, status |-> st]

\* self.results is a Python list; nothing in the program reads the order of
\* its entries (they are counted, or searched by task_id), so the model keeps
\* the list as the bag of its entries.
RECURSIVE CountUpTo(_, _, _)
CountUpTo(res, st, t) ==
    IF t = 0 THEN 0
    ELSE CopiesIn(Result(t, st), res) + CountUpTo(res, st, t - 1)

\* len([r for r in results if r.get("status") == st])
CountStatus(res, st) == CountUpTo(res, st, num_tasks)

\* (mutant) the result is not appended
AppendResultLost(res, r) == res

\* results.append(result).  The list is unbounded in the program (a task whose
\* body raises is claimed again, and every failure appends).  The program reads
\* the failed results in two ways: it compares their number with
\* len(self.tasks) and it asks whether one exists for a task id.  The model
\* therefore stops adding failed results of a task that has one once the list
\* holds len(self.tasks) failed results: both readings stay as in the program.
AppendResult(res, r) ==
    IF /\ r.status = "failed"
       /\ CopiesIn(r, res) >= 1
       /\ CountStatus(res, "failed") >= num_tasks
    THEN res
    ELSE res (+) SetToBag({r})

\* _executor_worker: len(completed_tasks) + number of failed results
total_processed == Cardinality(completed_tasks) + CountStatus(results, "failed")

(***************************************************************************)
(* ThreadingBackend: actions                                               *)
(***************************************************************************)
\* wait_for_completion, the spawn loop: start the next executor thread
Spawn ==
    /\ main_pc = "spawn"
    /\ executor_threads < num_executors_needed
    /\ executor_threads' = executor_threads + 1
    /\ wpc' = [wpc EXCEPT ![executor_threads + 1] = "scan"]
    /\ UNCHANGED <<planvars, exit_status, dockvars, task_lock, dvars, completed_tasks, in_progress_tasks, results,
                   task_to_execute, main_pc, summary>>

\* wait_for_completion: all threads started, go on to join them
SpawnDone ==
    /\ main_pc = "spawn"
    /\ executor_threads = num_executors_needed
    /\ main_pc' = "join"
    /\ UNCHANGED <<planvars, exit_status, dockvars, task_lock, dvars, completed_tasks, in_progress_tasks, results,
                   executor_threads, wpc, task_to_execute, summary>>

\* _executor_worker: the scan under task_lock; the claim is part of it
Scan(w) ==
    /\ wpc[w] = "scan"
    /\ task_lock = NoTask
    /\ LET t == FirstPickable IN
        IF t # NoTask
        THEN /\ in_progress_tasks' = in_progress_tasks \cup {t}
             /\ task_to_execute' = [task_to_execute EXCEPT ![w] = t]
             /\ wpc' = [wpc EXCEPT ![w] = "run"]
        ELSE /\ task_to_execute' = [task_to_execute EXCEPT ![w] = NoTask]
             /\ wpc' = [wpc EXCEPT ![w] = "check"]
             /\ UNCHANGED in_progress_tasks
    /\ UNCHANGED <<planvars, exit_status, dockvars, task_lock, dvars, completed_tasks, results, executor_threads,
                   main_pc, summary>>

\* execute_task returns a result whose status is "completed" and calls
\* mark_task_complete, whose first block appends the result under results_lock
BodyCompletes(w) ==
    /\ wpc[w] = "run"
    /\ results' = AppendResult(results, Result(task_to_execute[w], "completed"))
    /\ wpc' = [wpc EXCEPT ![w] = "mark_complete"]
    /\ UNCHANGED <<planvars, exit_status, dockvars, task_lock, dvars, completed_tasks, in_progress_tasks,
                   executor_threads, task_to_execute, main_pc, summary>>

\* with real executors ExecutorAgent.execute catches its own exception and
\* returns a result whose status is "failed"; execute_task hands that result to
\* mark_task_complete all the same
BodyReturnsFailed(w) ==
    /\ wpc[w] = "run"
    /\ use_real_executors
    /\ results' = AppendResult(results, Result(task_to_execute[w], "failed"))
    /\ wpc' = [wpc EXCEPT ![w] = "mark_complete"]
    /\ UNCHANGED <<planvars, exit_status, dockvars, task_lock, dvars, completed_tasks, in_progress_tasks,
                   executor_threads, task_to_execute, main_pc, summary>>

\* (mutant) mark_task_complete without the discard from in_progress_tasks
MarkCompleteKeepsInProgress(w) ==
    /\ wpc[w] = "mark_complete"
    /\ task_lock = NoTask
    /\ completed_tasks' = completed_tasks \cup {task_to_execute[w]}
    /\ wpc' = [wpc EXCEPT ![w] = "scan"]
    /\ UNCHANGED <<planvars, exit_status, dockvars, task_lock, dvars, in_progress_tasks, results, executor_threads,
                   task_to_execute, main_pc, summary>>

\* mark_task_complete, second block, under task_lock
MarkCompleteSets(w) ==
    /\ wpc[w] = "mark_complete"
    /\ task_lock = NoTask
    /\ completed_tasks' = completed_tasks \cup {task_to_execute[w]}
    /\ in_progress_tasks' = in_progress_tasks \ {task_to_execute[w]}
    /\ wpc' = [wpc EXCEPT ![w] = "scan"]
    /\ UNCHANGED <<planvars, exit_status, dockvars, task_lock, dvars, results, executor_threads, task_to_execute,
                   main_pc, summary>>

\* the body raises inside the try of execute_task: mark_task_failed, whose
\* first block appends a failed result under results_lock
BodyRaises(w) ==
    /\ wpc[w] = "run"
    /\ results' = AppendResult(results, Result(task_to_execute[w], "failed"))
    /\ wpc' = [wpc EXCEPT ![w] = "mark_failed"]
    /\ UNCHANGED <<planvars, exit_status, dockvars, task_lock, dvars, completed_tasks, in_progress_tasks,
                   executor_threads, task_to_execute, main_pc, summary>>

\* mark_task_failed, second block, under task_lock
MarkFailedSets(w) ==
    /\ wpc[w] = "mark_failed"
    /\ task_lock = NoTask
    /\ in_progress_tasks' = in_progress_tasks \ {task_to_execute[w]}
    /\ wpc' = [wpc EXCEPT ![w] = "scan"]
    /\ UNCHANGED <<planvars, exit_status, dockvars, task_lock, dvars, completed_tasks, results, executor_threads,
                   task_to_execute, main_pc, summary>>

\* execute_task raises before its try block (mkdir of the task's output
\* directory, the write of a log line, a task without 'description' or
\* 'priority'): _executor_worker calls the executor function outside any try,
\* so the exception ends the thread; nothing is marked and nothing is appended
ExecuteTaskRaises(w) ==
    /\ wpc[w] = "run"
    /\ wpc' = [wpc EXCEPT ![w] = "crashed"]
    /\ UNCHANGED <<planvars, exit_status, dockvars, task_lock, dvars, completed_tasks, in_progress_tasks, results,
                   executor_threads, task_to_execute, main_pc, summary>>

\* _executor_worker, nothing picked: the exit test under task_lock; when it
\* fails the lock is released and the thread sleeps 0.5 s and scans again;
\* when it succeeds the thread goes on, inside the with block, to the log line
CheckDone(w) ==
    /\ wpc[w] = "check"
    /\ task_lock = NoTask
    /\ IF total_processed >= num_tasks
       THEN /\ wpc' = [wpc EXCEPT ![w] = "shutdown_log"]
            /\ task_lock' = w
       ELSE /\ wpc' = [wpc EXCEPT ![w] = "scan"]
            /\ UNCHANGED task_lock
    /\ UNCHANGED <<planvars, exit_status, dockvars, dvars, completed_tasks, in_progress_tasks, results,
                   executor_threads, task_to_execute, main_pc, summary>>

\* _executor_worker: self.log("... All tasks processed, shutting down") prints
\* the line and appends it to the log file; break then leaves the with block,
\* which releases task_lock, and the thread ends
LogShutdown(w) ==
    /\ wpc[w] = "shutdown_log"
    /\ task_lock = w
    /\ task_lock' = NoTask
    /\ wpc' = [wpc EXCEPT ![w] = "done"]
    /\ UNCHANGED <<planvars, exit_status, dockvars, dvars, completed_tasks, in_progress_tasks, results,
                   executor_threads, task_to_execute, main_pc, summary>>

\* wait_for_completion: thread.join() of every executor thread has returned;
\* join returns for a thread that left its loop and for one an exception ended
Join ==
    /\ main_pc = "join"
    /\ \A w \in 1..executor_threads : wpc[w] \in {"done", "crashed"}
    /\ main_pc' = "returned"
    /\ UNCHANGED <<planvars, exit_status, dockvars, task_lock, dvars, completed_tasks, in_progress_tasks, results,
                   executor_threads, wpc, task_to_execute, summary>>

\* execute_parallel reads get_results(); aggregate_results builds the summary
aggregate_results(res) ==
    [total_tasks |-> num_tasks,
     completed |-> CountStatus(res, "completed"),
     failed |-> CountStatus(res, "failed")]

Aggregate ==
    /\ main_pc = "returned"
    /\ summary' = aggregate_results(results)
    /\ main_pc' = "aggregated"
    /\ UNCHANGED <<planvars, exit_status, dockvars, task_lock, dvars, completed_tasks, in_progress_tasks, results,
                   executor_threads, wpc, task_to_execute>>

\* main: run() has returned the summary; main prints it and returns, and the
\* interpreter ends the process with status 0 (main never calls sys.exit)
MainReturn ==
    /\ main_pc = "aggregated"
    /\ main_pc' = "exited"
    /\ exit_status' = 0
    /\ UNCHANGED <<planvars, dockvars, task_lock, dvars, completed_tasks, in_progress_tasks, results,
                   executor_threads, wpc, task_to_execute, summary>>

NoSummary == [total_tasks |-> 0, completed |-> 0, failed |-> 0]

\* the durable backends are not in use
SlurmIdle ==
    /\ spc = "unused"
    /\ tasks_state = EmptyTasksState
    /\ job_ids = <<>>
    /\ jobs_file = <<>>
    /\ poll_idx = 0

\* the locals of the durable backends' methods before the first call
LocalsIdle ==
    /\ submitted = {}
    /\ pending = <<>>
    /\ ready = <<>>
    /\ elapsed = 0
    /\ monitor_round = 0
    /\ failed_tasks = <<>>
    /\ retry_idx = 0

\* state/tasks.json on S3 before the first _save_state: no task, no job
NoObject == [task_status |-> <<>>, job_mapping |-> <<>>]

\* AWSBatchBackend.__init__, or the backend not in use
BatchIdle ==
    /\ bpc = "unused"
    /\ task_status = <<>>
    /\ job_mapping = <<>>
    /\ state_file = NoObject
    /\ retried = FALSE
    /\ task_results = <<>>

\* no process is inside _update_task_status
FileIdle ==
    /\ fpc = [p \in Procs |-> "idle"]
    /\ fdoc = [p \in Procs |-> EmptyTasksState]
    /\ upd = [p \in Procs |-> [task |-> NoTask, status |-> "none"]]
    /\ calls = [p \in Procs |-> 0]
    /\ lock_sh = {}
    /\ lock_ex = 0
    /\ file_bytes = "complete"

\* the Docker backend is not in use
DockerIdle ==
    /\ dkpc = "unused"
    /\ executor_tasks = <<>>
    /\ containers = <<>>

DurableIdle ==
    /\ max_retries = 0
    /\ exponential_backoff = TRUE
    /\ retry_counts = [t \in Tasks |-> 0]
    /\ slept = [t \in Tasks |-> 0]
    /\ SlurmIdle
    /\ LocalsIdle
    /\ BatchIdle
    /\ FileIdle
    /\ DockerIdle
    /\ ext_jobs = <<>>
    /\ result_files = [t \in Tasks |-> "none"]
    /\ body_fails = [t \in Tasks |-> 0]

\* ThreadingBackend.__init__ / initialize / submit_tasks
Init ==
    /\ num_tasks \in 1..MaxTasks
    /\ dependencies \in Plans(num_tasks)
    /\ max_executors \in 1..MaxM
    /\ use_real_executors \in BOOLEAN
    /\ priority = SamePriority
    /\ exit_status = NotExited
    /\ completed_tasks = {}
    /\ in_progress_tasks = {}
    /\ results = EmptyBag
    /\ task_lock = NoTask
    /\ executor_threads = 0
    /\ wpc = [w \in Workers |-> "unstarted"]
    /\ task_to_execute = [w \in Workers |-> NoTask]
    /\ main_pc = "spawn"
    /\ summary = NoSummary
    /\ DurableIdle

Next ==
    \/ Spawn
    \/ SpawnDone
    \/ \E w \in Workers : Scan(w)
    \/ \E w \in Workers : BodyCompletes(w)
    \/ \E w \in Workers : BodyReturnsFailed(w)
    \/ \E w \in Workers : MarkCompleteSets(w)
    \/ \E w \in Workers : BodyRaises(w)
    \/ \E w \in Workers : MarkFailedSets(w)
    \/ \E w \in Workers : ExecuteTaskRaises(w)
    \/ \E w \in Workers : CheckDone(w)
    \/ \E w \in Workers : LogShutdown(w)
    \/ Join
    \/ Aggregate
    \/ MainReturn

Spec == Init /\ [][Next]_vars

\* the steps of executor thread w
WorkerStep(w) ==
    \/ Scan(w)
    \/ BodyCompletes(w)
    \/ BodyReturnsFailed(w)
    \/ MarkCompleteSets(w)
    \/ BodyRaises(w)
    \/ MarkFailedSets(w)
    \/ ExecuteTaskRaises(w)
    \/ CheckDone(w)
    \/ LogShutdown(w)

\* the steps of the thread that called wait_for_completion
MainStep == Spawn \/ SpawnDone \/ Join \/ Aggregate \/ MainReturn

\* every thread that can take a step is eventually scheduled
FairSpec ==
    /\ Init
    /\ [][Next]_vars
    /\ WF_vars(MainStep)
    /\ \A w \in Workers : WF_vars(WorkerStep(w))


(***************************************************************************)
(* ThreadingBackend with worker bodies that succeed                        *)
(***************************************************************************)
\* planner_agent asks for a priority between 1 (highest) and 5
Priorities == 1..MaxPriority

\* as Init, with tasks of any priority and the simulated executor
SucceedInit ==
    /\ num_tasks \in 1..MaxTasks
    /\ dependencies \in Plans(num_tasks)
    /\ max_executors \in 1..MaxM
    /\ use_real_executors = FALSE
    /\ priority \in [1..num_tasks -> Priorities]
    /\ exit_status = NotExited
    /\ completed_tasks = {}
    /\ in_progress_tasks = {}
    /\ results = EmptyBag
    /\ task_lock = NoTask
    /\ executor_threads = 0
    /\ wpc = [w \in Workers |-> "unstarted"]
    /\ task_to_execute = [w \in Workers |-> NoTask]
    /\ main_pc = "spawn"
    /\ summary = NoSummary
    /\ DurableIdle

\* the steps of Next in which no body fails
SucceedNext ==
    \/ Spawn
    \/ SpawnDone
    \/ \E w \in Workers : Scan(w)
    \/ \E w \in Workers : BodyCompletes(w)
    \/ \E w \in Workers : MarkCompleteSets(w)
    \/ \E w \in Workers : CheckDone(w)
    \/ \E w \in Workers : LogShutdown(w)
    \/ Join
    \/ Aggregate
    \/ MainReturn

SucceedSpec == SucceedInit /\ [][SucceedNext]_vars

(***************************************************************************)
(* RetryManager                                                            *)
(***************************************************************************)
\* RetryConfig.retry_delay_seconds and RetryConfig.backoff_multiplier
base_delay == 5
backoff_multiplier == 2

RECURSIVE Pow(_, _)
Pow(b, e) == IF e = 0 THEN 1 ELSE b * Pow(b, e - 1)

\* (mutant) one retry too many is allowed
should_retry_inclusive(t) == retry_counts[t] <= max_retries

\* should_retry: retry_counts.get(task_id, 0) < max_retries
should_retry(t) == retry_counts[t] < max_retries

\* record_attempt: retry_counts[task_id] = retry_counts.get(task_id, 0) + 1
record_attempt(rc, t) == [rc EXCEPT ![t] = @ + 1]

\* get_delay: base_delay * backoff_multiplier ** attempts, or base_delay
get_delay(rc, t) ==
    IF exponential_backoff
    THEN base_delay * Pow(backoff_multiplier, rc[t])
    ELSE base_delay

(***************************************************************************)
(* SlurmBackend: helpers                                                   *)
(***************************************************************************)
poll_interval == 10

\* max_wait is 7200 in the program (720 polls); the model runs MaxPolls polls
max_wait == MaxPolls * poll_interval

InList(s, x) == \E i \in 1..Len(s) : s[i] = x

\* list.remove(x): the first occurrence is dropped
RECURSIVE RemoveFirst(_, _)
RemoveFirst(s, x) ==
    IF s = <<>> THEN <<>>
    ELSE IF Head(s) = x THEN Tail(s)
    ELSE <<Head(s)>> \o RemoveFirst(Tail(s), x)

\* (mutant) the id is left in the list it was in
RemoveIfInKept(s, x) == s

\* if task_id in tasks_state[status_list]: tasks_state[status_list].remove(task_id)
RemoveIfIn(s, x) == IF InList(s, x) THEN RemoveFirst(s, x) ELSE s

\* _update_task_status, applied to the document read from tasks.json
update_task_status(st, t, status) ==
    LET removed == [st EXCEPT !.pending = RemoveIfIn(@, t),
                              !.in_progress = RemoveIfIn(@, t),
                              !.completed = RemoveIfIn(@, t),
                              !.failed = RemoveIfIn(@, t)]
        added == [removed EXCEPT ![status] =
                     IF InList(@, t) THEN @ ELSE Append(@, t)]
    IN [added EXCEPT !.tasks = (t :> status) @@ @]

\* submit_tasks: the loop over the tasks, applied to the document
RECURSIVE submit_tasks_state(_, _)
submit_tasks_state(st, k) ==
    IF k = 0 THEN st
    ELSE LET prev == submit_tasks_state(st, k - 1)
         IN [prev EXCEPT !.tasks = (k :> "pending") @@ @,
                         !.pending = IF InList(@, k) THEN @ ELSE Append(@, k)]

\* list(self.tasks)
TaskList == [i \in 1..num_tasks |-> i]

\* task_id in self.job_ids / self.job_ids[task_id]
HasJob(t) == \E i \in 1..Len(job_ids) : job_ids[i].task = t
JobOf(t) == (CHOOSE i \in 1..Len(job_ids) : job_ids[i].task = t)

\* self.job_ids[task_id] = job_id
SetJob(jids, t, j) ==
    IF \E i \in 1..Len(jids) : jids[i].task = t
    THEN [i \in 1..Len(jids) |->
             IF jids[i].task = t THEN [task |-> t, job |-> j] ELSE jids[i]]
    ELSE Append(jids, [task |-> t, job |-> j])

\* (mutant) no dependency is passed to the scheduler
dep_job_ids_none(t) == {}

\* dep_job_ids = [self.job_ids[dep] for dep in task_deps if dep in self.job_ids]
dep_job_ids(t) ==
    {job_ids[JobOf(d)].job : d \in {d \in dependencies[t] : HasJob(d)}}

\* sbatch accepted the script: the scheduler has a new pending job
NewJob(t) ==
    [task |-> t, deps |-> dep_job_ids(t), state |-> "PENDING", wrote |-> FALSE]

\* _monitor_jobs is called by wait_for_completion and by _handle_failed_jobs
AfterMonitor == IF monitor_round = 1 THEN "handle_failed" ELSE "done"

\* _collect_task_result: completed only with a result file of status completed
collect_task_result(st, t) ==
    IF result_files[t] = "completed"
    THEN update_task_status(st, t, "completed")
    ELSE update_task_status(st, t, "failed")

(***************************************************************************)
(* SlurmBackend: the orchestrator process                                  *)
(***************************************************************************)
\* submit_tasks, then wait_for_completion up to the start of _submit_all_jobs
SlurmSubmitTasks ==
    /\ spc = "submit_tasks"
    /\ tasks_state' = submit_tasks_state(tasks_state, num_tasks)
    /\ submitted' = {}
    /\ pending' = TaskList
    /\ spc' = "submit_all"
    /\ UNCHANGED <<planvars, exit_status, dockvars, tvars, filevars, bvars, retryvars, envvars, job_ids, jobs_file,
                   ready, elapsed, poll_idx, monitor_round, failed_tasks,
                   retry_idx>>

\* (mutant) the while loop of _submit_all_jobs without the break on an empty
\* ready list
SlurmSubmitPassNoBreak ==
    /\ spc = "submit_all"
    /\ LET r == SelectSeq(pending, LAMBDA t : dependencies[t] \subseteq submitted)
       IN IF pending = <<>>
          THEN /\ spc' = "save_jobs"
               /\ UNCHANGED ready
          ELSE IF r = <<>>
          THEN UNCHANGED <<spc, ready>>
          ELSE /\ spc' = "submit_ready"
               /\ ready' = r
    /\ UNCHANGED <<planvars, exit_status, dockvars, tvars, filevars, bvars, retryvars, envvars, tasks_state, job_ids,
                   jobs_file, submitted, pending, elapsed, poll_idx,
                   monitor_round, failed_tasks, retry_idx>>

\* _submit_all_jobs: the head of the while loop and the computation of ready
SlurmSubmitPass ==
    /\ spc = "submit_all"
    /\ LET r == SelectSeq(pending, LAMBDA t : dependencies[t] \subseteq submitted)
       IN IF pending = <<>> \/ r = <<>>
          THEN /\ spc' = "save_jobs"
               /\ UNCHANGED ready
          ELSE /\ spc' = "submit_ready"
               /\ ready' = r
    /\ UNCHANGED <<planvars, exit_status, dockvars, tvars, filevars, bvars, retryvars, envvars, tasks_state, job_ids,
                   jobs_file, submitted, pending, elapsed, poll_idx,
                   monitor_round, failed_tasks, retry_idx>>

\* _submit_all_jobs: one turn of the loop over ready; sbatch may be refused
SlurmSubmitReady ==
    /\ spc = "submit_ready"
    /\ LET t == Head(ready) IN
       \E ok \in BOOLEAN :
          /\ IF ok
             THEN /\ ext_jobs' = Append(ext_jobs, NewJob(t))
                  /\ job_ids' = SetJob(job_ids, t, Len(ext_jobs) + 1)
                  /\ submitted' = submitted \cup {t}
                  /\ tasks_state' = update_task_status(tasks_state, t, "in_progress")
             ELSE UNCHANGED <<ext_jobs, job_ids, submitted, tasks_state>>
          /\ pending' = RemoveFirst(pending, t)
          /\ ready' = Tail(ready)
          /\ spc' = IF Tail(ready) = <<>> THEN "submit_all" ELSE "submit_ready"
    /\ UNCHANGED <<planvars, exit_status, dockvars, tvars, filevars, bvars, retryvars, result_files, body_fails,
                   jobs_file, elapsed, poll_idx, monitor_round, failed_tasks,
                   retry_idx>>

\* _submit_all_jobs: the job mapping is written to jobs.json; then
\* _monitor_jobs starts
SlurmSaveJobs ==
    /\ spc = "save_jobs"
    /\ jobs_file' = job_ids
    /\ elapsed' = 0
    /\ monitor_round' = 1
    /\ spc' = "monitor"
    /\ UNCHANGED <<planvars, exit_status, dockvars, tvars, filevars, bvars, retryvars, envvars, tasks_state, job_ids,
                   submitted, pending, ready, poll_idx, failed_tasks, retry_idx>>

\* _monitor_jobs: the test of the while loop
SlurmMonitorLoop ==
    /\ spc = "monitor"
    /\ IF elapsed < max_wait
       THEN /\ spc' = "poll"
            /\ poll_idx' = 1
       ELSE /\ spc' = AfterMonitor
            /\ UNCHANGED poll_idx
    /\ UNCHANGED <<planvars, exit_status, dockvars, tvars, filevars, bvars, retryvars, envvars, tasks_state, job_ids,
                   jobs_file, submitted, pending, ready, elapsed,
                   monitor_round, failed_tasks, retry_idx>>

\* _check_completed_jobs: one turn of the loop over the job ids; sacct may
\* fail or print nothing, and then the turn changes nothing
SlurmPollJob ==
    /\ spc = "poll"
    /\ poll_idx <= Len(job_ids)
    /\ LET t == job_ids[poll_idx].task
           j == job_ids[poll_idx].job
       IN \E main_state \in {ext_jobs[j].state, "UNAVAILABLE"} :
             tasks_state' =
                 IF main_state = "COMPLETED"
                 THEN collect_task_result(tasks_state, t)
                 ELSE IF main_state = "FAILED"
                 THEN update_task_status(tasks_state, t, "failed")
                 ELSE tasks_state
    /\ poll_idx' = poll_idx + 1
    /\ UNCHANGED <<planvars, exit_status, dockvars, tvars, filevars, bvars, retryvars, envvars, spc, job_ids, jobs_file,
                   submitted, pending, ready, elapsed, monitor_round,
                   failed_tasks, retry_idx>>

\* (mutant) _monitor_jobs without the break when all tasks are done
SlurmMonitorCheckNoBreak ==
    /\ spc = "poll"
    /\ poll_idx > Len(job_ids)
    /\ spc' = "monitor"
    /\ elapsed' = elapsed + poll_interval
    /\ UNCHANGED <<planvars, exit_status, dockvars, tvars, filevars, bvars, retryvars, envvars, tasks_state, job_ids,
                   jobs_file, submitted, pending, ready, poll_idx,
                   monitor_round, failed_tasks, retry_idx>>

\* _monitor_jobs: after _check_completed_jobs, read tasks.json and either
\* break or sleep poll_interval
SlurmMonitorCheck ==
    /\ spc = "poll"
    /\ poll_idx > Len(job_ids)
    /\ IF Len(tasks_state.completed) + Len(tasks_state.failed) >= num_tasks
       THEN /\ spc' = AfterMonitor
            /\ UNCHANGED elapsed
       ELSE /\ spc' = "monitor"
            /\ elapsed' = elapsed + poll_interval
    /\ UNCHANGED <<planvars, exit_status, dockvars, tvars, filevars, bvars, retryvars, envvars, tasks_state, job_ids,
                   jobs_file, submitted, pending, ready, poll_idx,
                   monitor_round, failed_tasks, retry_idx>>

\* _handle_failed_jobs: read the failed list; return when it is empty
SlurmHandleFailed ==
    /\ spc = "handle_failed"
    /\ failed_tasks' = tasks_state.failed
    /\ retry_idx' = 1
    /\ spc' = IF tasks_state.failed = <<>> THEN "done" ELSE "retry_loop"
    /\ UNCHANGED <<planvars, exit_status, dockvars, tvars, filevars, bvars, retryvars, envvars, tasks_state, job_ids,
                   jobs_file, submitted, pending, ready, elapsed, poll_idx,
                   monitor_round>>

\* _handle_failed_jobs: one turn of the loop over failed_tasks
SlurmRetryTask ==
    /\ spc = "retry_loop"
    /\ retry_idx <= Len(failed_tasks)
    /\ LET t == failed_tasks[retry_idx] IN
       IF should_retry(t)
       THEN LET rc == record_attempt(retry_counts, t)
                reset == update_task_status(tasks_state, t, "pending")
            IN /\ retry_counts' = rc
               /\ slept' = [slept EXCEPT ![t] = get_delay(rc, t)]
               /\ \E ok \in BOOLEAN :
                     IF ok
                     THEN /\ ext_jobs' = Append(ext_jobs, NewJob(t))
                          /\ job_ids' = SetJob(job_ids, t, Len(ext_jobs) + 1)
                          /\ tasks_state' =
                                 update_task_status(reset, t, "in_progress")
                     ELSE /\ tasks_state' = reset
                          /\ UNCHANGED <<ext_jobs, job_ids>>
       ELSE UNCHANGED <<retry_counts, slept, ext_jobs, job_ids, tasks_state>>
    /\ retry_idx' = retry_idx + 1
    /\ UNCHANGED <<planvars, exit_status, dockvars, tvars, filevars, bvars, max_retries, exponential_backoff,
                   result_files, body_fails, spc, jobs_file, submitted,
                   pending, ready, elapsed, poll_idx, monitor_round,
                   failed_tasks>>

\* _handle_failed_jobs: after the loop, monitor again when a listed task has
\* a retry recorded; then wait_for_completion returns
SlurmRetryDone ==
    /\ spc = "retry_loop"
    /\ retry_idx > Len(failed_tasks)
    /\ IF \E i \in 1..Len(failed_tasks) : retry_counts[failed_tasks[i]] > 0
       THEN /\ spc' = "monitor"
            /\ elapsed' = 0
            /\ monitor_round' = 2
       ELSE /\ spc' = "done"
            /\ UNCHANGED <<elapsed, monitor_round>>
    /\ UNCHANGED <<planvars, exit_status, dockvars, tvars, filevars, bvars, retryvars, envvars, tasks_state, job_ids,
                   jobs_file, submitted, pending, ready, poll_idx,
                   failed_tasks, retry_idx>>

(***************************************************************************)
(* The cluster: scheduler and workers                                      *)
(***************************************************************************)
\* a durable backend has been started
ClusterInUse == spc # "unused" \/ bpc # "unused"

\* the jobs of task t that have run to their end
EndedJobs(t) ==
    {j \in 1..Len(ext_jobs) :
        ext_jobs[j].task = t /\ ext_jobs[j].state \in {"COMPLETED", "FAILED"}}

JobsOfTask(t) == {j \in 1..Len(ext_jobs) : ext_jobs[j].task = t}

\* afterok: a pending job starts once every job it depends on has completed
JobStarts(j) ==
    /\ ClusterInUse
    /\ j \in 1..Len(ext_jobs)
    /\ ext_jobs[j].state = "PENDING"
    /\ \A d \in ext_jobs[j].deps : ext_jobs[d].state = "COMPLETED"
    /\ ext_jobs' = [ext_jobs EXCEPT ![j].state = "RUNNING"]
    /\ UNCHANGED <<planvars, exit_status, dockvars, tvars, filevars, bvars, retryvars, svars, result_files, body_fails>>

\* the worker body ends: the first body_fails[t] attempts of task t fail, the
\* later ones succeed; the worker writes results/<id>.json, or dies before
\* it does and leaves the directory as it was
JobEnds(j) ==
    /\ ClusterInUse
    /\ j \in 1..Len(ext_jobs)
    /\ ext_jobs[j].state = "RUNNING"
    /\ LET t == ext_jobs[j].task
           outcome == IF Cardinality(EndedJobs(t)) < body_fails[t]
                      THEN "FAILED" ELSE "COMPLETED"
           written == IF outcome = "FAILED" THEN "failed" ELSE "completed"
       IN \E wrote \in BOOLEAN :
             /\ ext_jobs' = [ext_jobs EXCEPT ![j].state = outcome,
                                             ![j].wrote = wrote]
             /\ result_files' =
                    IF wrote THEN [result_files EXCEPT ![t] = written]
                    ELSE result_files
    /\ UNCHANGED <<planvars, exit_status, dockvars, tvars, filevars, bvars, retryvars, svars, body_fails>>

\* a job of the managed batch service whose dependency failed is failed by
\* the service without being run
JobDependencyFails(j) ==
    /\ bpc # "unused"
    /\ j \in 1..Len(ext_jobs)
    /\ ext_jobs[j].state = "PENDING"
    /\ \E d \in ext_jobs[j].deps : ext_jobs[d].state \in {"FAILED", "DEP_FAILED"}
    /\ ext_jobs' = [ext_jobs EXCEPT ![j].state = "DEP_FAILED"]
    /\ UNCHANGED <<planvars, exit_status, dockvars, tvars, filevars, bvars, retryvars, svars, result_files,
                   body_fails>>

(***************************************************************************)
(* AWSBatchBackend: the orchestrator process                               *)
(***************************************************************************)
batch_poll_interval == 15

\* max_wait is 7200 in the program (480 polls); the model runs MaxPolls polls
batch_max_wait == MaxPolls * batch_poll_interval

\* task_id in self.job_mapping / self.job_mapping[task_id]
Mapped(t) == \E i \in 1..Len(job_mapping) : job_mapping[i].task = t
MappedJob(t) ==
    job_mapping[CHOOSE i \in 1..Len(job_mapping) : job_mapping[i].task = t].job

\* dep_job_ids = [self.job_mapping[dep] for dep in task_deps if dep in self.job_mapping]
batch_dep_job_ids(t) ==
    {MappedJob(d) : d \in {d \in dependencies[t] : Mapped(d)}}

\* submit-job was accepted: the service has a new pending job
NewBatchJob(t) ==
    [task |-> t, deps |-> batch_dep_job_ids(t), state |-> "PENDING",
     wrote |-> FALSE]

\* the status describe-jobs reports for job j
describe_job(j) ==
    CASE ext_jobs[j].state = "COMPLETED" -> "SUCCEEDED"
      [] ext_jobs[j].state \in {"FAILED", "DEP_FAILED"} -> "FAILED"
      [] ext_jobs[j].state = "RUNNING" -> "RUNNING"
      [] OTHER -> "RUNNABLE"

\* _save_state: the document uploaded to state/tasks.json
saved_state(ts, jm) == [task_status |-> ts, job_mapping |-> jm]

\* the tasks whose status is st, in the order of self.task_status
TasksWithStatus(ts, st) == SelectSeq(TaskList, LAMBDA t : ts[t] = st)

\* _check_job_status: the loop over the jobs of the response
check_job_status(ts) ==
    [t \in DOMAIN ts |->
        IF Mapped(t) /\ ts[t] \notin {"completed", "failed"}
        THEN CASE describe_job(MappedJob(t)) = "SUCCEEDED" -> "completed"
               [] describe_job(MappedJob(t)) = "FAILED" -> "failed"
               [] describe_job(MappedJob(t)) = "RUNNING" -> "running"
               [] OTHER -> ts[t]
        ELSE ts[t]]

BatchAfterMonitor == IF monitor_round = 1 THEN "handle_failed" ELSE "collect"

\* submit_tasks, then wait_for_completion up to the start of _submit_all_jobs
BatchSubmitTasks ==
    /\ bpc = "submit_tasks"
    /\ task_status' = [t \in Tasks |-> "pending"]
    /\ state_file' = saved_state(task_status', job_mapping)
    /\ submitted' = {}
    /\ pending' = TaskList
    /\ bpc' = "submit_all"
    /\ UNCHANGED <<planvars, exit_status, dockvars, tvars, filevars, retryvars, envvars, slurmvars, job_mapping,
                   retried, task_results, ready, elapsed, monitor_round,
                   failed_tasks, retry_idx>>

\* _submit_all_jobs: the head of the while loop and the computation of ready
BatchSubmitPass ==
    /\ bpc = "submit_all"
    /\ LET r == SelectSeq(pending, LAMBDA t : dependencies[t] \subseteq submitted)
       IN IF pending = <<>> \/ r = <<>>
          THEN /\ bpc' = "save_state"
               /\ UNCHANGED ready
          ELSE /\ bpc' = "submit_ready"
               /\ ready' = r
    /\ UNCHANGED <<planvars, exit_status, dockvars, tvars, filevars, retryvars, envvars, slurmvars, task_status,
                   job_mapping, state_file, retried, task_results, submitted,
                   pending, elapsed, monitor_round, failed_tasks, retry_idx>>

\* _submit_all_jobs: one turn of the loop over ready; submit-job may be refused
BatchSubmitReady ==
    /\ bpc = "submit_ready"
    /\ LET t == Head(ready) IN
       \E ok \in BOOLEAN :
          /\ IF ok
             THEN /\ ext_jobs' = Append(ext_jobs, NewBatchJob(t))
                  /\ job_mapping' = SetJob(job_mapping, t, Len(ext_jobs) + 1)
                  /\ task_status' = [task_status EXCEPT ![t] = "submitted"]
                  /\ submitted' = submitted \cup {t}
             ELSE /\ task_status' = [task_status EXCEPT ![t] = "failed"]
                  /\ UNCHANGED <<ext_jobs, job_mapping, submitted>>
          /\ pending' = RemoveFirst(pending, t)
          /\ ready' = Tail(ready)
          /\ bpc' = IF Tail(ready) = <<>> THEN "submit_all" ELSE "submit_ready"
    /\ UNCHANGED <<planvars, exit_status, dockvars, tvars, filevars, retryvars, slurmvars, result_files,
                   body_fails, state_file, retried, task_results, elapsed,
                   monitor_round, failed_tasks, retry_idx>>

\* _submit_all_jobs: _save_state; then _monitor_jobs starts
BatchSaveState ==
    /\ bpc = "save_state"
    /\ state_file' = saved_state(task_status, job_mapping)
    /\ elapsed' = 0
    /\ monitor_round' = 1
    /\ bpc' = "monitor"
    /\ UNCHANGED <<planvars, exit_status, dockvars, tvars, filevars, retryvars, envvars, slurmvars, task_status,
                   job_mapping, retried, task_results, submitted, pending,
                   ready, failed_tasks, retry_idx>>

\* _monitor_jobs: one turn of the while loop; describe-jobs may fail, and then
\* the turn changes no status
BatchMonitorPoll ==
    /\ bpc = "monitor"
    /\ LET active == {t \in Tasks :
                         Mapped(t) /\ task_status[t] \notin {"completed", "failed"}}
       IN IF elapsed >= batch_max_wait \/ active = {}
          THEN /\ bpc' = BatchAfterMonitor
               /\ UNCHANGED <<task_status, elapsed>>
          ELSE \E ok \in BOOLEAN :
                  LET ts == IF ok THEN check_job_status(task_status)
                            ELSE task_status
                  IN /\ task_status' = ts
                     /\ IF Len(TasksWithStatus(ts, "completed"))
                             + Len(TasksWithStatus(ts, "failed")) >= num_tasks
                        THEN /\ bpc' = BatchAfterMonitor
                             /\ UNCHANGED elapsed
                        ELSE /\ bpc' = "monitor"
                             /\ elapsed' = elapsed + batch_poll_interval
    /\ UNCHANGED <<planvars, exit_status, dockvars, tvars, filevars, retryvars, envvars, slurmvars, job_mapping,
                   state_file, retried, task_results, submitted, pending,
                   ready, monitor_round, failed_tasks, retry_idx>>

\* _handle_failed_jobs: list the failed tasks; return when there is none
BatchHandleFailed ==
    /\ bpc = "handle_failed"
    /\ failed_tasks' = TasksWithStatus(task_status, "failed")
    /\ retry_idx' = 1
    /\ retried' = FALSE
    /\ bpc' = IF failed_tasks' = <<>> THEN "collect" ELSE "retry_loop"
    /\ UNCHANGED <<planvars, exit_status, dockvars, tvars, filevars, retryvars, envvars, slurmvars, task_status,
                   job_mapping, state_file, task_results, submitted, pending,
                   ready, elapsed, monitor_round>>

\* _handle_failed_jobs: one turn of the loop over failed_tasks
BatchRetryTask ==
    /\ bpc = "retry_loop"
    /\ retry_idx <= Len(failed_tasks)
    /\ LET t == failed_tasks[retry_idx] IN
       IF should_retry(t)
       THEN LET rc == record_attempt(retry_counts, t)
            IN /\ retry_counts' = rc
               /\ slept' = [slept EXCEPT ![t] = get_delay(rc, t)]
               /\ \E ok \in BOOLEAN :
                     IF ok
                     THEN /\ ext_jobs' = Append(ext_jobs, NewBatchJob(t))
                          /\ job_mapping' = SetJob(job_mapping, t, Len(ext_jobs) + 1)
                          /\ task_status' = [task_status EXCEPT ![t] = "submitted"]
                          /\ retried' = TRUE
                     ELSE UNCHANGED <<ext_jobs, job_mapping, task_status, retried>>
       ELSE UNCHANGED <<retry_counts, slept, ext_jobs, job_mapping, task_status,
                        retried>>
    /\ retry_idx' = retry_idx + 1
    /\ UNCHANGED <<planvars, exit_status, dockvars, tvars, filevars, max_retries, exponential_backoff,
                   result_files, body_fails, slurmvars, bpc, state_file,
                   task_results, submitted, pending, ready, elapsed,
                   monitor_round, failed_tasks>>

\* _handle_failed_jobs: after the loop, save the state and monitor again when
\* a job was resubmitted
BatchRetryDone ==
    /\ bpc = "retry_loop"
    /\ retry_idx > Len(failed_tasks)
    /\ IF retried
       THEN /\ state_file' = saved_state(task_status, job_mapping)
            /\ elapsed' = 0
            /\ monitor_round' = 2
            /\ bpc' = "monitor"
       ELSE /\ bpc' = "collect"
            /\ UNCHANGED <<state_file, elapsed, monitor_round>>
    /\ UNCHANGED <<planvars, exit_status, dockvars, tvars, filevars, retryvars, envvars, slurmvars, task_status,
                   job_mapping, retried, task_results, submitted, pending,
                   ready, failed_tasks, retry_idx>>

\* _collect_all_results: the result files found on S3 are loaded; then
\* wait_for_completion returns
BatchCollect ==
    /\ bpc = "collect"
    /\ task_results' = [t \in {u \in Tasks : result_files[u] # "none"} |->
                           result_files[t]]
    /\ bpc' = "done"
    /\ UNCHANGED <<planvars, exit_status, dockvars, tvars, filevars, retryvars, envvars, slurmvars, task_status,
                   job_mapping, state_file, retried, submitted, pending, ready,
                   elapsed, monitor_round, failed_tasks, retry_idx>>

\* the in-memory backend is not in use
ThreadingIdle ==
    /\ max_executors = 1
    /\ use_real_executors = FALSE
    /\ priority = SamePriority
    /\ exit_status = NotExited
    /\ completed_tasks = {}
    /\ in_progress_tasks = {}
    /\ results = EmptyBag
    /\ task_lock = NoTask
    /\ executor_threads = 0
    /\ wpc = [w \in Workers |-> "unstarted"]
    /\ task_to_execute = [w \in Workers |-> NoTask]
    /\ main_pc = "unused"
    /\ summary = NoSummary

\* SlurmBackend.__init__ and initialize
SlurmInit ==
    /\ num_tasks \in 1..MaxTasks
    /\ dependencies \in Plans(num_tasks)
    /\ ThreadingIdle
    /\ max_retries \in 0..MaxRetries
    /\ exponential_backoff \in BOOLEAN
    /\ retry_counts = [t \in Tasks |-> 0]
    /\ slept = [t \in Tasks |-> 0]
    /\ spc = "submit_tasks"
    /\ tasks_state = EmptyTasksState
    /\ job_ids = <<>>
    /\ jobs_file = <<>>
    /\ poll_idx = 0
    /\ LocalsIdle
    /\ BatchIdle
    /\ FileIdle
    /\ DockerIdle
    /\ ext_jobs = <<>>
    /\ result_files = [t \in Tasks |-> "none"]
    /\ body_fails \in [Tasks -> 0..(MaxRetries + 1)]

SlurmNext ==
    \/ SlurmSubmitTasks
    \/ SlurmSubmitPass
    \/ SlurmSubmitReady
    \/ SlurmSaveJobs
    \/ SlurmMonitorLoop
    \/ SlurmPollJob
    \/ SlurmMonitorCheck
    \/ SlurmHandleFailed
    \/ SlurmRetryTask
    \/ SlurmRetryDone
    \/ \E j \in 1..(2 * MaxTasks) : JobStarts(j)
    \/ \E j \in 1..(2 * MaxTasks) : JobEnds(j)

SlurmSpec == SlurmInit /\ [][SlurmNext]_vars

\* AWSBatchBackend.__init__ and initialize
BatchInit ==
    /\ num_tasks \in 1..MaxTasks
    /\ dependencies \in Plans(num_tasks)
    /\ ThreadingIdle
    /\ max_retries \in 0..MaxRetries
    /\ exponential_backoff \in BOOLEAN
    /\ retry_counts = [t \in Tasks |-> 0]
    /\ slept = [t \in Tasks |-> 0]
    /\ SlurmIdle
    /\ LocalsIdle
    /\ bpc = "submit_tasks"
    /\ task_status = <<>>
    /\ job_mapping = <<>>
    /\ state_file = NoObject
    /\ retried = FALSE
    /\ task_results = <<>>
    /\ FileIdle
    /\ DockerIdle
    /\ ext_jobs = <<>>
    /\ result_files = [t \in Tasks |-> "none"]
    /\ body_fails \in [Tasks -> 0..(MaxRetries + 1)]

BatchNext ==
    \/ BatchSubmitTasks
    \/ BatchSubmitPass
    \/ BatchSubmitReady
    \/ BatchSaveState
    \/ BatchMonitorPoll
    \/ BatchHandleFailed
    \/ BatchRetryTask
    \/ BatchRetryDone
    \/ BatchCollect
    \/ \E j \in 1..(2 * MaxTasks) : JobStarts(j)
    \/ \E j \in 1..(2 * MaxTasks) : JobEnds(j)
    \/ \E j \in 1..(2 * MaxTasks) : JobDependencyFails(j)

BatchSpec == BatchInit /\ [][BatchNext]_vars

\* a run of either durable backend
DurableInit == SlurmInit \/ BatchInit

DurableNext == SlurmNext \/ BatchNext

DurableSpec == DurableInit /\ [][DurableNext]_vars

(***************************************************************************)
(* _submit_all_jobs of the two durable backends, up to its return          *)
(***************************************************************************)
\* where _submit_all_jobs is: every one of its steps changes one of these
submitpos == <<spc, bpc, ready, pending>>

\* the steps of the process that runs _submit_all_jobs
SubmitStep ==
    \/ SlurmSubmitTasks
    \/ SlurmSubmitPass
    \/ SlurmSubmitReady
    \/ SlurmSaveJobs
    \/ BatchSubmitTasks
    \/ BatchSubmitPass
    \/ BatchSubmitReady
    \/ BatchSaveState

\* the cluster runs the jobs it has while the others are being submitted
SubmitNext ==
    \/ SubmitStep
    \/ \E j \in 1..(2 * MaxTasks) : JobStarts(j)
    \/ \E j \in 1..(2 * MaxTasks) : JobEnds(j)
    \/ \E j \in 1..(2 * MaxTasks) : JobDependencyFails(j)

\* _submit_all_jobs runs in the one thread of the orchestrator; sbatch is run
\* with a timeout of 30 s and submit_job returns or raises, so every step that
\* can be taken is taken
SubmitSpec == DurableInit /\ [][SubmitNext]_vars /\ WF_submitpos(SubmitStep)

(***************************************************************************)
(* A run of either durable backend with a fair orchestrator process        *)
(***************************************************************************)
\* the steps of the orchestrator process
OrchestratorStep ==
    \/ SlurmSubmitTasks
    \/ SlurmSubmitPass
    \/ SlurmSubmitReady
    \/ SlurmSaveJobs
    \/ SlurmMonitorLoop
    \/ SlurmPollJob
    \/ SlurmMonitorCheck
    \/ SlurmHandleFailed
    \/ SlurmRetryTask
    \/ SlurmRetryDone
    \/ BatchSubmitTasks
    \/ BatchSubmitPass
    \/ BatchSubmitReady
    \/ BatchSaveState
    \/ BatchMonitorPoll
    \/ BatchHandleFailed
    \/ BatchRetryTask
    \/ BatchRetryDone
    \/ BatchCollect

\* the delay between two retries plays no part in _monitor_jobs: the runs
\* with the constant delay
MonitorInit == DurableInit /\ ~exponential_backoff

\* the orchestrator is one thread whose calls of squeue, sacct and aws all
\* have a timeout and whose sleeps end, so it takes every step it can take;
\* nothing is assumed of the jobs of the cluster
MonitorSpec == MonitorInit /\ [][DurableNext]_vars /\ WF_vars(OrchestratorStep)

(***************************************************************************)
(* tasks.json under concurrent _update_task_status                         *)
(*                                                                         *)
(* The orchestrator's poller and the worker bodies (mark_task_complete,    *)
(* mark_task_failed) are separate processes that share tasks.json.  Each   *)
(* call reads the file under LOCK_SH, releases the lock, changes its copy  *)
(* and writes it back under LOCK_EX.  tasks_state is the document last     *)
(* written; file_bytes is "complete" when the disk holds all of it,        *)
(* "empty" after truncate() and "partial" when only a part of the new      *)
(* document has left the writer's buffer.                                  *)
(***************************************************************************)
Statuses == {"pending", "in_progress", "completed", "failed"}

\* the variables of the Slurm orchestrator other than the content of tasks.json
slurmrest == <<spc, job_ids, jobs_file, submitted, pending, ready, elapsed,
               poll_idx, monitor_round, failed_tasks, retry_idx>>

\* json.load fails on the current content of the file
Unparsable == file_bytes # "complete"

\* a process enters _update_task_status(task_id, status)
FileCall(p) ==
    /\ spc = "file_protocol"
    /\ fpc[p] = "idle"
    /\ calls[p] < MaxCalls
    /\ \E t \in Tasks : \E st \in Statuses :
          upd' = [upd EXCEPT ![p] = [task |-> t, status |-> st]]
    /\ fpc' = [fpc EXCEPT ![p] = "lock_sh"]
    /\ UNCHANGED <<planvars, exit_status, dockvars, tvars, retryvars, bvars, envvars, slurmrest,
                   file_bytes,
                   tasks_state, fdoc, calls, lock_sh, lock_ex>>

\* _read_json_with_lock: open and flock(LOCK_SH), granted when no process
\* holds LOCK_EX
FileLockShared(p) ==
    /\ fpc[p] = "lock_sh"
    /\ lock_ex = 0
    /\ lock_sh' = lock_sh \cup {p}
    /\ fpc' = [fpc EXCEPT ![p] = "parse"]
    /\ UNCHANGED <<planvars, exit_status, dockvars, tvars, retryvars, bvars, envvars, slurmrest,
                   file_bytes,
                   tasks_state, fdoc, upd, calls, lock_ex>>

\* _read_json_with_lock: json.load and flock(LOCK_UN); then the local copy is
\* changed as _update_task_status changes it.  A content that does not parse
\* raises out of the call.
FileParse(p) ==
    /\ fpc[p] = "parse"
    /\ lock_sh' = lock_sh \ {p}
    /\ IF Unparsable
       THEN /\ fpc' = [fpc EXCEPT ![p] = "error"]
            /\ UNCHANGED fdoc
       ELSE /\ fpc' = [fpc EXCEPT ![p] = "lock_ex"]
            /\ fdoc' = [fdoc EXCEPT ![p] =
                           update_task_status(tasks_state, upd[p].task,
                                              upd[p].status)]
    /\ UNCHANGED <<planvars, exit_status, dockvars, tvars, retryvars, bvars, envvars, slurmrest,
                   file_bytes,
                   tasks_state, upd, calls, lock_ex>>

\* _write_json_with_lock: open('r+') and flock(LOCK_EX), granted when no
\* other process holds a lock
FileLockExclusive(p) ==
    /\ fpc[p] = "lock_ex"
    /\ lock_ex = 0
    /\ lock_sh = {}
    /\ lock_ex' = p
    /\ fpc' = [fpc EXCEPT ![p] = "truncate"]
    /\ UNCHANGED <<planvars, exit_status, dockvars, tvars, retryvars, bvars, envvars, slurmrest,
                   file_bytes,
                   tasks_state, fdoc, upd, calls, lock_sh>>

\* _write_json_with_lock: f.seek(0); f.truncate()
FileTruncate(p) ==
    /\ fpc[p] = "truncate"
    /\ file_bytes' = "empty"
    /\ fpc' = [fpc EXCEPT ![p] = "dump"]
    /\ UNCHANGED <<planvars, exit_status, dockvars, tvars, retryvars, bvars, envvars, slurmrest,
                   tasks_state, fdoc, upd, calls, lock_sh, lock_ex>>

\* _write_json_with_lock: json.dump(data, f) into the buffered file object;
\* nothing, or only the part beyond the buffer size, reaches the disk
FileDump(p) ==
    /\ fpc[p] = "dump"
    /\ file_bytes' \in {"empty", "partial"}
    /\ fpc' = [fpc EXCEPT ![p] = "unlock"]
    /\ UNCHANGED <<planvars, exit_status, dockvars, tvars, retryvars, bvars, envvars, slurmrest,
                   tasks_state, fdoc, upd, calls, lock_sh, lock_ex>>

\* _write_json_with_lock: finally flock(LOCK_UN)
FileUnlock(p) ==
    /\ fpc[p] = "unlock"
    /\ lock_ex' = 0
    /\ fpc' = [fpc EXCEPT ![p] = "close"]
    /\ UNCHANGED <<planvars, exit_status, dockvars, tvars, retryvars, bvars, envvars, slurmrest,
                   file_bytes,
                   tasks_state, fdoc, upd, calls, lock_sh>>

\* _write_json_with_lock: the with block closes the file, which flushes the
\* buffer; the call returns
FileClose(p) ==
    /\ fpc[p] = "close"
    /\ tasks_state' = fdoc[p]
    /\ file_bytes' = "complete"
    /\ calls' = [calls EXCEPT ![p] = @ + 1]
    /\ fpc' = [fpc EXCEPT ![p] = "idle"]
    /\ UNCHANGED <<planvars, exit_status, dockvars, tvars, retryvars, bvars, envvars, slurmrest,
                   fdoc, upd, lock_sh, lock_ex>>

\* initialize and one submit_tasks have run; the processes are about to call
FileInit ==
    /\ num_tasks \in 1..MaxTasks
    /\ dependencies = PlanIndependent(num_tasks)
    /\ ThreadingIdle
    /\ max_retries = 0
    /\ exponential_backoff = TRUE
    /\ retry_counts = [t \in Tasks |-> 0]
    /\ slept = [t \in Tasks |-> 0]
    /\ spc = "file_protocol"
    /\ tasks_state = submit_tasks_state(EmptyTasksState, num_tasks)
    /\ job_ids = <<>>
    /\ jobs_file = <<>>
    /\ poll_idx = 0
    /\ LocalsIdle
    /\ BatchIdle
    /\ FileIdle
    /\ DockerIdle
    /\ ext_jobs = <<>>
    /\ result_files = [t \in Tasks |-> "none"]
    /\ body_fails = [t \in Tasks |-> 0]

FileNext ==
    \E p \in Procs :
        \/ FileCall(p)
        \/ FileLockShared(p)
        \/ FileParse(p)
        \/ FileLockExclusive(p)
        \/ FileTruncate(p)
        \/ FileDump(p)
        \/ FileUnlock(p)
        \/ FileClose(p)

FileSpec == FileInit /\ [][FileNext]_vars

(***************************************************************************)
(* DockerBackend                                                           *)
(***************************************************************************)
\* (mutant) every task goes to the first executor
executor_id_first(idx, n) == 0

\* submit_tasks: executor_id = idx % num_executors
executor_id(idx, n) == idx % n

\* submit_tasks, the loop over enumerate(tasks) up to index k: the list that
\* executor e has received; the task at insertion index idx has the id idx + 1
RECURSIVE assigned(_, _, _)
assigned(e, n, k) ==
    IF k = 0 THEN <<>>
    ELSE LET rest == assigned(e, n, k - 1)
         IN  IF executor_id(k - 1, n) = e THEN Append(rest, k) ELSE rest

\* submit_tasks: the round-robin distribution, empty executors removed
distribute ==
    LET num_executors == Min(max_executors, num_tasks)
        all == [e \in 0..(num_executors - 1) |->
                   assigned(e, num_executors, num_tasks)]
    IN  [e \in {x \in DOMAIN all : all[x] # <<>>} |-> all[e]]

\* the task ids in the list s
Elems(s) == {s[i] : i \in 1..Len(s)}

\* for task in tasks: self.task_status[task['id']] = st
SetStatus(ts, S, st) ==
    [t \in (DOMAIN ts) \cup S |-> IF t \in S THEN st ELSE ts[t]]

\* DockerBackend.get_task_status: self.task_status.get(task_id, 'pending')
docker_get_task_status(t) ==
    IF t \in DOMAIN task_status THEN task_status[t] ELSE "pending"

\* submit_tasks; the containers of the executors are not yet started
DockerSubmitTasks ==
    /\ dkpc = "init"
    /\ executor_tasks' = distribute
    /\ containers' = [e \in DOMAIN distribute |-> "unstarted"]
    /\ dkpc' = "start"
    /\ UNCHANGED <<planvars, exit_status, tvars, dvars>>

\* the executors whose container wait_for_completion has not yet started
Unstarted == {e \in DOMAIN containers : containers[e] = "unstarted"}

\* wait_for_completion, one pass of the loop over executor_tasks.items():
\* _start_executor_container either starts the container and marks its tasks
\* in_progress, or catches the error and marks them failed
DockerStartContainer ==
    /\ dkpc = "start"
    /\ Unstarted # {}
    /\ LET e == CHOOSE x \in Unstarted : \A y \in Unstarted : x <= y
           mine == Elems(executor_tasks[e])
       IN  \E ok \in BOOLEAN :
             IF ok
             THEN /\ containers' = [containers EXCEPT ![e] = "running"]
                  /\ task_status' = SetStatus(task_status, mine, "in_progress")
                  /\ UNCHANGED task_results
             ELSE /\ containers' = [containers EXCEPT ![e] = "start_failed"]
                  /\ task_status' = SetStatus(task_status, mine, "failed")
                  /\ task_results' = SetStatus(task_results, mine, "failed")
    /\ UNCHANGED <<planvars, exit_status, tvars, retryvars, svars, envvars,
                   filevars, bpc, job_mapping, state_file, retried, dkpc,
                   executor_tasks>>

\* wait_for_completion: every container was tried, go on to monitor them
DockerStartDone ==
    /\ dkpc = "start"
    /\ Unstarted = {}
    /\ dkpc' = "monitor"
    /\ UNCHANGED <<planvars, exit_status, tvars, dvars, executor_tasks,
                   containers>>

\* the container of executor e leaves, for one of its tasks, a result.json
\* with a status, or only the response file
ContainerWrites(e) ==
    /\ dkpc \in {"start", "monitor"}
    /\ containers[e] = "running"
    /\ \E t \in Elems(executor_tasks[e]) :
         /\ result_files[t] = "none"
         /\ \E written \in {"completed", "failed", "response_only"} :
              result_files' = [result_files EXCEPT ![t] = written]
    /\ UNCHANGED <<planvars, exit_status, tvars, retryvars, svars, bvars,
                   filevars, ext_jobs, body_fails, dockvars>>

\* the container of executor e exits, with exit code 0 or not
ContainerExits(e) ==
    /\ dkpc \in {"start", "monitor"}
    /\ containers[e] = "running"
    /\ \E state \in {"exited_0", "exited_1"} :
         containers' = [containers EXCEPT ![e] = state]
    /\ UNCHANGED <<planvars, exit_status, tvars, dvars, dkpc, executor_tasks>>

\* _monitor_containers: a poll that finds no container running ends the loop
\* (a poll that finds one sleeps 5 s and changes nothing)
DockerMonitor ==
    /\ dkpc = "monitor"
    /\ \A e \in DOMAIN containers : containers[e] # "running"
    /\ dkpc' = "collect"
    /\ UNCHANGED <<planvars, exit_status, tvars, dvars, executor_tasks,
                   containers>>

\* the tasks for which _collect_results finds a directory
Collected == {t \in Tasks : result_files[t] # "none"}

\* _collect_results: what a task directory yields as status and result
collected_status(t) ==
    IF result_files[t] = "response_only" THEN "completed" ELSE result_files[t]

\* _collect_results, then wait_for_completion returns
DockerCollect ==
    /\ dkpc = "collect"
    /\ task_status' = [t \in (DOMAIN task_status) \cup Collected |->
                          IF t \in Collected THEN collected_status(t)
                          ELSE task_status[t]]
    /\ task_results' = [t \in (DOMAIN task_results) \cup Collected |->
                           IF t \in Collected THEN collected_status(t)
                           ELSE task_results[t]]
    /\ dkpc' = "done"
    /\ UNCHANGED <<planvars, exit_status, tvars, retryvars, svars, envvars,
                   filevars, bpc, job_mapping, state_file, retried,
                   executor_tasks, containers>>

\* DockerBackend.__init__ / initialize (self.tasks is still empty, so no
\* status is set) before submit_tasks
DockerInit ==
    /\ num_tasks \in 1..MaxAssigned
    /\ dependencies \in Plans(num_tasks)
    /\ max_executors \in 1..MaxPool
    /\ use_real_executors = FALSE
    /\ priority = SamePriority
    /\ exit_status = NotExited
    /\ completed_tasks = {}
    /\ in_progress_tasks = {}
    /\ results = EmptyBag
    /\ task_lock = NoTask
    /\ executor_threads = 0
    /\ wpc = [w \in Workers |-> "unstarted"]
    /\ task_to_execute = [w \in Workers |-> NoTask]
    /\ main_pc = "unused"
    /\ summary = NoSummary
    /\ max_retries = 0
    /\ exponential_backoff = TRUE
    /\ retry_counts = [t \in Tasks |-> 0]
    /\ slept = [t \in Tasks |-> 0]
    /\ SlurmIdle
    /\ LocalsIdle
    /\ BatchIdle
    /\ FileIdle
    /\ ext_jobs = <<>>
    /\ result_files = [t \in Tasks |-> "none"]
    /\ body_fails = [t \in Tasks |-> 0]
    /\ dkpc = "init"
    /\ executor_tasks = <<>>
    /\ containers = <<>>

DockerNext ==
    \/ DockerSubmitTasks
    \/ DockerStartContainer
    \/ DockerStartDone
    \/ \E e \in DOMAIN containers : ContainerWrites(e)
    \/ \E e \in DOMAIN containers : ContainerExits(e)
    \/ DockerMonitor
    \/ DockerCollect

DockerSpec == DockerInit /\ [][DockerNext]_vars

(***************************************************************************)
(* Properties of the in-memory backend                                     *)
(***************************************************************************)
\* an executor thread holds a task from its claim to the end of the
\* mark_task_complete / mark_task_failed call for it
Holding(w) == wpc[w] \in {"run", "mark_complete", "mark_failed"}

HasResult(t) ==
    CopiesIn(Result(t, "completed"), results)
        + CopiesIn(Result(t, "failed"), results) >= 1

\* C1: whenever a task id is added to in_progress_tasks, every dependency
\* listed for it is in completed_tasks at that moment; and in every state the
\* dependencies of every in-progress task are completed.
C1_ClaimAfterDependencies ==
    /\ [](\A t \in in_progress_tasks : dependencies[t] \subseteq completed_tasks)
    /\ [][\A t \in in_progress_tasks' \ in_progress_tasks :
              dependencies[t] \subseteq completed_tasks]_vars

C1_Witness ==
    \E w \in Workers :
        /\ Holding(w)
        /\ dependencies[task_to_execute[w]] # {}

\* C2: the number of in-progress tasks never exceeds max_executors, nor the
\* number of tasks (so it is at most min(M, |tasks|)).
C2_InProgressWithinBudget ==
    /\ Cardinality(in_progress_tasks) <= max_executors
    /\ Cardinality(in_progress_tasks) <= num_tasks

C2_Witness ==
    /\ Cardinality(in_progress_tasks) = max_executors
    /\ max_executors < num_tasks
    /\ CountStatus(results, "failed") >= 1

\* C3: no two executor threads hold the same task at the same time, and a
\* task held by a thread is not a completed task.
C3_ClaimIsExclusive ==
    \A w \in Workers :
        Holding(w) =>
            /\ task_to_execute[w] \notin completed_tasks
            /\ \A v \in Workers :
                   (v # w /\ Holding(v)) => task_to_execute[v] # task_to_execute[w]

C3_Witness ==
    \E w, v \in Workers :
        /\ w # v
        /\ Holding(w)
        /\ wpc[v] = "check"
        /\ completed_tasks # {}

\* C4: every task id in completed_tasks has a result in the results list.
C4_CompletedHasResult ==
    \A t \in completed_tasks : HasResult(t)

C4_Witness ==
    \E w \in Workers :
        /\ Holding(w)
        /\ dependencies[task_to_execute[w]] \cap completed_tasks # {}


(***************************************************************************)
(* Properties of retries and of failed tasks                               *)
(***************************************************************************)
\* wait_for_completion has returned to execute_parallel
Returned == main_pc \in {"returned", "aggregated", "exited"}

\* C5: for an acyclic plan whose dependency ids all exist, under fair
\* scheduling of the threads, wait_for_completion eventually returns.
C5_Progress == ValidPlan => <>Returned

\* the number of jobs submitted for task t, i.e. the attempts made
Attempts(t) == Cardinality(JobsOfTask(t))

\* the status recorded for task t in tasks.json
StatusOf(t) == tasks_state.tasks[t]

\* every retry recorded for task t put a new job in the queue
RetriesSubmitted(t) == Attempts(t) = retry_counts[t] + 1

\* C6: when the run has ended, a task whose every attempt fails, whose
\* retries were all accepted by the scheduler and that ended in the failed
\* state was attempted exactly max_retries + 1 times.
C6_RetryCeiling ==
    spc = "done" =>
        \A t \in Tasks :
            (/\ body_fails[t] > max_retries
             /\ StatusOf(t) = "failed"
             /\ RetriesSubmitted(t))
                => Attempts(t) = max_retries + 1

\* every job of task t that ran to completion has left its result file
ResultsWritten(t) ==
    \A j \in JobsOfTask(t) : ext_jobs[j].state = "COMPLETED" => ext_jobs[j].wrote

\* C7: when the run has ended, a task whose first k <= max_retries attempts
\* fail and whose next attempt succeeds, whose retries were all accepted by
\* the scheduler and whose workers wrote their results, and that reached a
\* final state, is completed with a retry record of k.
C7_RetryThenSucceed ==
    spc = "done" =>
        \A t \in Tasks :
            (/\ body_fails[t] <= max_retries
             /\ StatusOf(t) \in {"completed", "failed"}
             /\ RetriesSubmitted(t)
             /\ ResultsWritten(t))
                => /\ StatusOf(t) = "completed"
                   /\ retry_counts[t] = body_fails[t]

\* C8: the delay slept before the n-th retry of a task is
\* base_delay * backoff_multiplier^(n-1) with exponential backoff, and
\* base_delay without.
C8_BackoffDelay ==
    \A t \in Tasks :
        retry_counts[t] >= 1 =>
            slept[t] = IF exponential_backoff
                       THEN base_delay * Pow(backoff_multiplier, retry_counts[t] - 1)
                       ELSE base_delay

\* C9: the retry record of a task never exceeds max_retries.
C9_RetryCountsBounded == \A t \in Tasks : retry_counts[t] <= max_retries

\* a retry has been recorded and the record stands at the bound
C9_Witness ==
    \E t \in Tasks : max_retries >= 1 /\ retry_counts[t] = max_retries

\* task t has ended failed: it is marked done, and its only results are failures
EndedFailed(t) ==
    /\ t \in completed_tasks
    /\ CopiesIn(Result(t, "failed"), results) >= 1
    /\ CopiesIn(Result(t, "completed"), results) = 0

\* C10: no task that depends on a task that ended failed is claimed or run.
C10_DependentSkipped ==
    \A t \in Tasks : \A u \in Tasks :
        (t \in dependencies[u] /\ EndedFailed(t))
            => (u \notin in_progress_tasks /\ u \notin completed_tasks)

(***************************************************************************)
(* Properties of plan validation and of the end of a durable run           *)
(***************************************************************************)
\* C11: a plan whose dependency map has a cycle is refused before execution
\* starts: no executor thread is started for it and no task is claimed.
C11_CyclicPlanRefused ==
    ~Acyclic(dependencies) =>
        (executor_threads = 0 /\ in_progress_tasks = {})

\* get_task_status of the Slurm backend
slurm_get_task_status(t) ==
    IF t \in DOMAIN tasks_state.tasks THEN tasks_state.tasks[t] ELSE "unknown"

\* task t depends, directly or transitively, on a task recorded as failed
SkippedDependent(t) ==
    \E d \in Reach(dependencies, dependencies[t], num_tasks) \cap Tasks :
        slurm_get_task_status(d) = "failed"

\* C12: when wait_for_completion has returned, for a valid plan, every task
\* is reported completed or failed, unless it depends on a failed task.
C12_AllTerminalOnReturn ==
    (spc = "done" /\ ValidPlan) =>
        \A t \in Tasks :
            \/ slurm_get_task_status(t) \in {"completed", "failed"}
            \/ SkippedDependent(t)

\* _monitor_jobs has just ended because elapsed reached max_wait
MonitorTimedOut ==
    /\ elapsed >= max_wait
    /\ \/ spc = "handle_failed"
       \/ spc = "done" /\ monitor_round = 2

\* C14: when the monitoring loop ends at the wall-clock ceiling, for a valid
\* plan whose tasks were all submitted, every task is recorded as completed
\* or failed.
C14_TimeoutMarksFailed ==
    (MonitorTimedOut /\ ValidPlan /\ \A t \in Tasks : HasJob(t)) =>
        \A t \in Tasks : slurm_get_task_status(t) \in {"completed", "failed"}

\* the submission of task t was tried by _submit_all_jobs and refused
SubmissionRefused(t) == t \notin submitted /\ ~InList(pending, t)

\* C15: when _submit_all_jobs has ended, every task whose submission was
\* refused is recorded as failed.
C15_RefusedSubmissionFailed ==
    spc = "save_jobs" =>
        \A t \in Tasks : SubmissionRefused(t) => slurm_get_task_status(t) = "failed"

(***************************************************************************)
(* Properties of the AWS Batch backend's recorded state                    *)
(***************************************************************************)
\* get_task_status of the AWS Batch backend
batch_get_task_status(t) ==
    IF t \in DOMAIN task_status THEN task_status[t] ELSE "unknown"

\* C16: a task is recorded as completed only when a result file with status
\* completed exists for it.
C16_CompletedHasResultFile ==
    \A t \in Tasks :
        batch_get_task_status(t) = "completed" => result_files[t] = "completed"

\* C17: whenever the orchestrator changes a task's state, the state it
\* changes is already the content of the persisted state file.
C17_PersistedBeforeNextTransition ==
    [][(task_status # <<>> /\ task_status' # task_status)
          => state_file = saved_state(task_status, job_mapping)]_vars

\* C20: get_task_status returns one of pending, in_progress, completed,
\* failed, unknown.
C20_StatusVocabulary ==
    \A t \in Tasks :
        batch_get_task_status(t)
            \in {"pending", "in_progress", "completed", "failed", "unknown"}

(***************************************************************************)
(* Properties of tasks.json                                                *)
(***************************************************************************)
\* the number of occurrences of x in the list s
Occurrences(s, x) == Cardinality({i \in 1..Len(s) : s[i] = x})

\* C13: every submitted task id is in exactly one of the four lists of
\* tasks.json, exactly once, and tasks[id] names that list.
C13_OneListPerTask ==
    \A t \in DOMAIN tasks_state.tasks :
        /\ tasks_state.tasks[t] \in Statuses
        /\ \A l \in Statuses :
              Occurrences(tasks_state[l], t)
                  = IF l = tasks_state.tasks[t] THEN 1 ELSE 0

\* every call has been made and has moved the tasks out of the pending list
C13_Witness ==
    /\ spc = "file_protocol"
    /\ \A p \in Procs : fpc[p] = "idle" /\ calls[p] = MaxCalls
    /\ num_tasks = MaxTasks
    /\ Len(tasks_state.pending) = 0
    /\ Len(tasks_state.completed) >= 1
    /\ Len(tasks_state.failed) >= 1

\* every process has made one call, for a task of its own, and none failed
OneCallEach ==
    /\ \A p \in Procs : fpc[p] = "idle" /\ calls[p] = 1
    /\ \A p \in Procs : \A q \in Procs : p # q => upd[p].task # upd[q].task

\* C18: when concurrent calls for different tasks have all returned,
\* tasks.json shows the status of every one of them.
C18_NoLostUpdate ==
    (OneCallEach /\ ~Unparsable) =>
        \A p \in Procs : tasks_state.tasks[upd[p].task] = upd[p].status

\* C19: a process that holds LOCK_SH on tasks.json finds a complete document.
C19_ReaderSeesCompleteDocument ==
    \A p \in Procs : fpc[p] = "parse" => ~Unparsable

(***************************************************************************)
(* Properties of the result list and of the summary                        *)
(***************************************************************************)
\* the number of results that get_results returns for task t
ResultsOf(t) ==
    CopiesIn(Result(t, "completed"), results)
        + CopiesIn(Result(t, "failed"), results)

\* C21: get_results holds at most one result for each task id, and the
\* summary never counts more completed plus failed results than tasks.
C21_OneResultPerTask ==
    /\ \A t \in Tasks : ResultsOf(t) <= 1
    /\ main_pc \in {"aggregated", "exited"} =>
           summary.completed + summary.failed <= summary.total_tasks

(***************************************************************************)
(* Properties of the claim order                                           *)
(***************************************************************************)
\* t comes before u in the order (priority ascending, insertion ascending)
Before(t, u) ==
    priority[t] < priority[u] \/ (priority[t] = priority[u] /\ t < u)

\* the ready task that is smallest in that order
FirstByPriority ==
    IF \E t \in Tasks : Pickable(t)
    THEN CHOOSE t \in Tasks :
             Pickable(t) /\ \A u \in Tasks \ {t} : Pickable(u) => Before(t, u)
    ELSE NoTask

\* a step in which a worker claims a task
Claims ==
    /\ in_progress_tasks \subseteq in_progress_tasks'
    /\ in_progress_tasks' # in_progress_tasks

\* C22: with one worker and bodies that succeed, every claim takes the ready
\* task that is smallest by (priority ascending, insertion order ascending).
C22_ClaimByPriority ==
    [][(max_executors = 1 /\ Claims)
          => in_progress_tasks' = in_progress_tasks \cup {FirstByPriority}]_vars

\* C27: on a chain plan with bodies that succeed, at most one task is in
\* progress at any time and the tasks complete in chain order.
C27_ChainInOrder ==
    dependencies = PlanChain(num_tasks) =>
        /\ Cardinality(in_progress_tasks) <= 1
        /\ completed_tasks = 1..Cardinality(completed_tasks)

\* a chain of MaxTasks tasks has been run to its end by several workers
C27_Witness ==
    /\ num_tasks = MaxTasks
    /\ dependencies = PlanChain(num_tasks)
    /\ executor_threads >= 2
    /\ completed_tasks = Tasks
    /\ main_pc = "aggregated"

(***************************************************************************)
(* Properties of the outcome of the run                                    *)
(***************************************************************************)
\* the summary counts a completed result for every task of the plan
AllCompleted == summary.completed >= summary.total_tasks

\* C23: the run ends with exit status 0 when every task completed and with
\* exit status 1 when some task failed or was skipped.
C23_ExitStatusTellsSuccess ==
    main_pc = "exited" =>
        /\ AllCompleted => exit_status = 0
        /\ ~AllCompleted => exit_status = 1

(***************************************************************************)
(* Properties of the locks of the in-memory backend                        *)
(***************************************************************************)
\* worker w is inside the executor function
RunsBody(w) == wpc[w] = "run"

\* worker w is at a self.log call, which prints and appends to the log file
WritesLog(w) == wpc[w] = "shutdown_log"

\* C24: no thread holds task_lock while the worker body runs or while a log
\* line is written.
C24_NoLockAcrossBodyOrIO ==
    \A w \in Workers : task_lock = w => ~RunsBody(w) /\ ~WritesLog(w)

(***************************************************************************)
(* Properties of the order of execution on the durable backends            *)
(***************************************************************************)
\* C25: a task is reported in progress only when each of its dependencies
\* is reported completed.
C25_InProgressAfterDependencies ==
    \A v \in Tasks : \A u \in dependencies[v] \cap Tasks :
        slurm_get_task_status(v) = "in_progress"
            => slurm_get_task_status(u) = "completed"

(***************************************************************************)
(* Properties of the container backend                                     *)
(***************************************************************************)
\* the executors whose list holds task t
ExecutorsOf(t) == {e \in DOMAIN executor_tasks : t \in Elems(executor_tasks[e])}

\* C26: after submit_tasks every task is in the list of exactly one of the
\* N = min(M, |tasks|) executors, the one numbered (insertion index) mod N;
\* no executor is empty and the loads of two executors differ by at most one.
C26_RoundRobinAssignment ==
    dkpc \notin {"unused", "init"} =>
        LET N == Min(max_executors, num_tasks) IN
        /\ DOMAIN executor_tasks = 0..(N - 1)
        /\ \A t \in Tasks :
              /\ ExecutorsOf(t) = {(t - 1) % N}
              /\ Occurrences(executor_tasks[(t - 1) % N], t) = 1
        /\ \A e \in DOMAIN executor_tasks : Len(executor_tasks[e]) >= 1
        /\ \A e, f \in DOMAIN executor_tasks :
              Len(executor_tasks[e]) - Len(executor_tasks[f]) <= 1

\* three tasks were distributed over two executors
C26_Witness ==
    /\ dkpc = "start"
    /\ num_tasks = 3
    /\ DOMAIN executor_tasks = {0, 1}
    /\ Len(executor_tasks[0]) = 2

(***************************************************************************)
(* Properties of terminal states                                           *)
(***************************************************************************)
\* no process is making, or has last made, a call that asks for a status of
\* t other than completed
NoCallAgainst(t) ==
    \A p \in Procs : upd[p].task = t => upd[p].status = "completed"

\* C28: a task that tasks.json shows as completed is shown as completed in
\* every later state, whatever the other status updates of the run do.
C28_CompletedIsFinal ==
    [][\A t \in Tasks :
          (/\ slurm_get_task_status(t) = "completed"
           /\ NoCallAgainst(t)
           /\ NoCallAgainst(t)')
              => slurm_get_task_status(t)' = "completed"]_vars

(***************************************************************************)
(* Properties of the retry path and of the submission order                *)
(***************************************************************************)
\* the job id that jobs.json records for task t (NoTask: none)
PersistedJob(t) ==
    IF \E i \in 1..Len(jobs_file) : jobs_file[i].task = t
    THEN jobs_file[CHOOSE i \in 1..Len(jobs_file) : jobs_file[i].task = t].job
    ELSE NoTask

\* the job id that self.job_ids records for task t (NoTask: none)
CurrentJob(t) == IF HasJob(t) THEN job_ids[JobOf(t)].job ELSE NoTask

\* C29: when the run has ended, a task that was resubmitted by the retry
\* path is mapped by jobs.json to its new job id, and that job carries the
\* current job ids of all the declared dependencies of the task.
C29_RetryJobPersisted ==
    spc = "done" =>
        \A t \in Tasks :
            (retry_counts[t] >= 1 /\ RetriesSubmitted(t)) =>
                /\ PersistedJob(t) = CurrentJob(t)
                /\ ext_jobs[CurrentJob(t)].deps
                       = {CurrentJob(d) : d \in dependencies[t]}

\* C30: every job in the scheduler's table was submitted after a job of each
\* declared dependency of its task, and its dependency expression names such
\* a job for every one of them; a task with a dependency that has no job has
\* no job itself.
C30_SubmittedAfterDependencies ==
    \A j \in 1..Len(ext_jobs) :
        \A d \in dependencies[ext_jobs[j].task] :
            \E k \in ext_jobs[j].deps : k < j /\ ext_jobs[k].task = d

\* the run has ended and a job with a dependency expression was submitted
C30_Witness ==
    /\ spc = "done" \/ bpc = "done"
    /\ \E j \in 1..Len(ext_jobs) :
         /\ dependencies[ext_jobs[j].task] # {}
         /\ ext_jobs[j].deps # {}

(***************************************************************************)
(* Properties of the worker loop of the in-memory backend                  *)
(***************************************************************************)
\* the tasks that are completed or have a failed result
Processed ==
    {t \in Tasks :
        t \in completed_tasks \/ CopiesIn(Result(t, "failed"), results) >= 1}

\* C31: with a valid plan, a worker leaves its pickup loop only when the
\* number of distinct tasks that are completed or failed is at least the
\* number of tasks and no task is in progress.
C31_ExitOnlyWhenAllProcessed ==
    \A w \in Workers :
        (ValidPlan /\ wpc[w] = "shutdown_log") =>
            /\ Cardinality(Processed) >= num_tasks
            /\ in_progress_tasks = {}


(* Properties of the failure handling of the in-memory backend *)
\* the call of the executor function by worker w ends otherwise than by
\* returning a result
Raises(w) == wpc[w] = "run" /\ wpc'[w] \notin {"run", "mark_complete"}

\* C32: when the executor function raises for a task, mark_task_failed is
\* called: a failed result of the task is recorded, the task leaves
\* in_progress_tasks and does not enter completed_tasks, and the worker goes
\* back to its pickup loop.
C32_RaiseIsMarkedFailed ==
    [][\A w \in Workers :
        /\ Raises(w) =>
            /\ wpc'[w] = "mark_failed"
            /\ CopiesIn(Result(task_to_execute[w], "failed"), results') >= 1
        /\ (wpc[w] = "mark_failed" /\ wpc'[w] # "mark_failed") =>
            /\ task_to_execute[w] \notin in_progress_tasks'
            /\ completed_tasks' = completed_tasks
            /\ wpc'[w] = "scan"]_vars


(* Properties of the pickup discipline of the in-memory backend *)
\* worker w is in its pickup loop and holds no task: it is about to scan, or
\* its scan found nothing and it is at the exit test that precedes the sleep
Idle(w) == wpc[w] \in {"scan", "check"}

\* C33: under fair scheduling a task that is ready while some worker is idle
\* is eventually claimed, as long as a worker is left to claim it (not every
\* thread has left its loop or was ended by an exception).
C33_ReadyTaskEventuallyClaimed ==
    \A t \in 1..MaxTasks :
        (t \in Tasks /\ Pickable(t) /\ \E w \in Workers : Idle(w))
            ~> \/ t \in in_progress_tasks
               \/ \A w \in Workers : wpc[w] \in {"unstarted", "done", "crashed"}


(* Properties of completed_tasks of the in-memory backend *)
\* C34: every task in completed_tasks has a recorded result whose status is
\* "completed": a body that returns a failed result does not complete its task.
C34_CompletedOnlyOnSuccess ==
    \A t \in Tasks :
        t \in completed_tasks => CopiesIn(Result(t, "completed"), results) >= 1


(* Properties of the return of wait_for_completion *)
\* C35: once wait_for_completion has returned, every spawned worker has left
\* its pickup loop, no task is in progress, no body is running, and the
\* results do not change any more.
C35_QuiescentOnReturn ==
    [][Returned =>
        /\ \A w \in 1..executor_threads : wpc[w] = "done"
        /\ in_progress_tasks = {}
        /\ results' = results]_vars


(* Properties of the task sets of the in-memory backend *)
\* C36: no task id is in completed_tasks and in in_progress_tasks in a state
\* a holder of task_lock can observe.
C36_CompletedInProgressDisjoint == completed_tasks \cap in_progress_tasks = {}

\* a task with a failed result is in completed_tasks while another task is in
\* progress
C36_Witness ==
    \E t \in completed_tasks :
        /\ CopiesIn(Result(t, "failed"), results) >= 1
        /\ in_progress_tasks # {}


(* Properties of _submit_all_jobs *)
\* _submit_all_jobs has not returned yet
Submitting ==
    \/ spc \in {"submit_all", "submit_ready", "save_jobs"}
    \/ bpc \in {"submit_all", "submit_ready", "save_state"}

\* _submit_all_jobs has returned and _monitor_jobs starts
SubmissionOver == spc = "monitor" \/ bpc = "monitor"

\* C37: _submit_all_jobs terminates for every plan: a pass of its loop stops
\* the loop or has a task to submit, every turn over ready takes one task out
\* of pending, no task gets two jobs, and once it has returned the tasks it
\* did not submit have no job id.
C37_SubmissionTerminates ==
    /\ [][/\ (spc = "submit_all" /\ spc' # spc) =>
               (spc' = "save_jobs" \/ (spc' = "submit_ready" /\ ready' # <<>>))
          /\ (bpc = "submit_all" /\ bpc' # bpc) =>
               (bpc' = "save_state" \/ (bpc' = "submit_ready" /\ ready' # <<>>))
          /\ ((spc = "submit_ready" \/ bpc = "submit_ready") /\ ready' # ready) =>
               Len(pending') = Len(pending) - 1]_submitpos
    /\ [](\A t \in Tasks : Cardinality(JobsOfTask(t)) <= 1)
    /\ [](SubmissionOver =>
            \A t \in Tasks : (HasJob(t) \/ Mapped(t)) <=> t \in submitted)
    /\ Submitting ~> SubmissionOver

\* _submit_all_jobs has returned after its loop stopped on tasks it could not
\* submit, with another task submitted
C37_Witness ==
    /\ SubmissionOver
    /\ pending # <<>>
    /\ submitted # {}


(* Properties of _monitor_jobs *)
\* _monitor_jobs is in its while loop
Monitoring == spc \in {"monitor", "poll"} \/ bpc = "monitor"

\* tasks.json lists every task as completed or failed
AllListed ==
    \A t \in Tasks :
        InList(tasks_state.completed, t) \/ InList(tasks_state.failed, t)

\* the jobs AWSBatchBackend._monitor_jobs would ask about
active_jobs ==
    {t \in Tasks : Mapped(t) /\ task_status[t] \notin {"completed", "failed"}}

\* C38: _monitor_jobs terminates: a poll happens only while elapsed is below
\* max_wait, and elapsed grows by poll_interval with every poll that does not
\* end the loop, so there are at most max_wait / poll_interval polls; and the
\* loop sleeps again only if some task is neither completed nor failed (for
\* AWS Batch: and some submitted job is not terminal).
C38_MonitorTerminates ==
    /\ [](/\ spc \in {"monitor", "poll"} =>
                (elapsed <= max_wait /\ elapsed % poll_interval = 0)
          /\ spc = "poll" => elapsed \div poll_interval + 1 <= MaxPolls
          /\ bpc = "monitor" =>
                (elapsed <= batch_max_wait /\ elapsed % batch_poll_interval = 0))
    /\ [][/\ (spc = "poll" /\ poll_idx > Len(job_ids) /\ AllListed) =>
                spc' # "monitor"
          /\ (bpc = "monitor" /\ elapsed' > elapsed) =>
                /\ elapsed \div batch_poll_interval + 1 <= MaxPolls
                /\ active_jobs # {}
                /\ \E t \in Tasks : task_status'[t] \notin {"completed", "failed"}]_vars
    /\ Monitoring ~> ~Monitoring

\* _monitor_jobs has ended at the ceiling, with a task that is not terminal
C38_Witness ==
    /\ MonitorTimedOut
    /\ ~AllListed

=============================================================================
